---------------------------- MODULE Spec2Model ----------------------------
(***************************************************************************)
(* A model of bloat_vacuum.py: one run of main().                          *)
(*                                                                         *)
(* The run connects, sets the session timeouts, checks the pgstattuple     *)
(* extension, logs the diagnostic listing, selects the candidate tables    *)
(* with one SQL query (get_candidate_tables) and takes every candidate     *)
(* through ANALYZE -> pgstattuple -> VACUUM (ANALYZE), counting in         *)
(* checked / analyzed / remediated / skipped.                              *)
(*                                                                         *)
(* Percentages are exact rationals [num, den] (the SQL computes them in    *)
(* numeric); the prefilter floor and the pgstattuple percentage are in     *)
(* hundredths of a percent (floor 100 is 1.0%, threshold 200 is 2.0%).     *)
(***************************************************************************)
EXTENDS Integers, Sequences, FiniteSets

VARIABLES
    pc,          \* position of main()
    tables,      \* the catalog: sequence of [schema, relkind, live, dead]
    cfg,         \* APPROX_PREFILTER_DEAD_PCT, MAX_TABLES_TO_CHECK, TARGET_SCHEMA_LIST
    conn,        \* "none" | "open" | "closed"
    raised,      \* what is propagating out of main(): "none" | "SystemExit2" | "SystemExit3" | "Error"
    exitCode,    \* the process exit status once pc = "done", Null before
    candidates,  \* rows returned by get_candidate_tables: [id, schema, pct]
    idx,         \* position of the for loop in candidates (0 before the first)
    checked, analyzed, remediated, skipped,
    calls,       \* statements sent on the connection, with their result
    outcomes,    \* the per-candidate closing log line: [id, line]
    summary      \* the closing blocks logged: SUMMARY records and "nothing to do" notices

vars == << pc, tables, cfg, conn, raised, exitCode, candidates, idx,
           checked, analyzed, remediated, skipped, calls, outcomes, summary >>

\* SQL NULL in a counter column; also "no exit status yet"
Null == -1

-----------------------------------------------------------------------------
(* Bound of the model: the number of relations in the catalog *)

NumTables == 3

(* Program constants *)

DEAD_TUPLE_PERCENT_THRESHOLD == 200

-----------------------------------------------------------------------------
(* Inputs *)

\* Rows of pg_class JOIN pg_namespace LEFT JOIN pg_stat_all_tables.  A NULL
\* counter is a relation without a statistics row.
TableKinds ==
    << [schema |-> "public",     relkind |-> "r", live |-> 100,  dead |-> 50],
       [schema |-> "public",     relkind |-> "r", live |-> 1000, dead |-> 5],
       [schema |-> "app",        relkind |-> "r", live |-> 0,    dead |-> 0],
       [schema |-> "app",        relkind |-> "r", live |-> Null, dead |-> Null],
       [schema |-> "pg_catalog", relkind |-> "r", live |-> 1,    dead |-> 1],
       [schema |-> "public",     relkind |-> "m", live |-> 1,    dead |-> 1] >>

\* Catalogs of NumTables different tables, up to renaming: table i is of kind
\* k[i], k increasing.
Catalogs ==
    { [i \in 1..NumTables |-> TableKinds[k[i]]] :
        k \in { f \in [1..NumTables -> 1..Len(TableKinds)] :
                  \A i \in 1..(NumTables - 1) : f[i] < f[i + 1] } }

FloorChoices == {0, 1, 100}
\* MAX_TABLES_TO_CHECK: none, fewer than the tables, as many as NumTables
CapChoices == {0, 1, 2, 3}

\* TARGET_SCHEMAS as read from the environment: a string, here a sequence of
\* tokens, each a comma, a blank or a run of name characters
RawSchemaChoices ==
    { << >>,
      << " ", ",", " " >>,
      << "public" >>,
      << " ", "public", ",", ",", "sales", " " >> }

\* raw.split(","): the parts between the commas
RECURSIVE Split(_)
Split(raw) ==
    IF \A k \in 1..Len(raw) : raw[k] # ","
    THEN << raw >>
    ELSE LET c == CHOOSE k \in 1..Len(raw) :
                    raw[k] = "," /\ \A j \in 1..(k - 1) : raw[j] # ","
         IN  << SubSeq(raw, 1, c - 1) >> \o Split(SubSeq(raw, c + 1, Len(raw)))

\* p.strip()
RECURSIVE Strip(_)
Strip(part) ==
    IF part = << >> THEN part
    ELSE IF Head(part) = " " THEN Strip(Tail(part))
    ELSE IF part[Len(part)] = " " THEN Strip(SubSeq(part, 1, Len(part) - 1))
    ELSE part

\* [p for p in parts if p]
RECURSIVE NonEmpty(_)
NonEmpty(parts) ==
    IF parts = << >> THEN << >>
    ELSE (IF Head(parts) = << >> THEN << >> ELSE << Head(parts) >>) \o NonEmpty(Tail(parts))

\* parse_target_schemas(raw): the list of schema names, each a stripped part
parse_target_schemas(raw) ==
    IF raw = << >>
    THEN << >>
    ELSE LET parts == Split(raw)
         IN  NonEmpty([k \in 1..Len(parts) |-> Strip(parts[k])])

\* TARGET_SCHEMA_LIST
SchemaListChoices == { parse_target_schemas(raw) : raw \in RawSchemaChoices }

\* float(cur.fetchone()[0]) of pgstattuple's dead_tuple_percent
MeasuredValues == {199, 200, 201}

-----------------------------------------------------------------------------
(* get_candidate_tables: the SQL query *)

Coalesce(x) == IF x = Null THEN 0 ELSE x

\* the percentage taken over the live rows instead of all rows
ApproxDeadPct_OverLive(live, dead) ==
    IF Coalesce(live) = 0
    THEN [num |-> 0, den |-> 1]
    ELSE [num |-> Coalesce(dead) * 100, den |-> Coalesce(live)]

\* CASE WHEN live + dead = 0 THEN 0.0 ELSE dead * 100.0 / (live + dead) END
\* (numeric division keeps at least 16 significant digits; the floors and
\* counters of this model are far from the rounding, so the quotient is kept
\* as the exact fraction)
ApproxDeadPct(live, dead) ==
    IF Coalesce(live) + Coalesce(dead) = 0
    THEN [num |-> 0, den |-> 1]
    ELSE [num |-> Coalesce(dead) * 100, den |-> Coalesce(live) + Coalesce(dead)]

\* a >= b for rationals with positive denominators
RatGE(a, b) == a.num * b.den >= b.num * a.den

\* the parameter APPROX_PREFILTER_DEAD_PCT, given in hundredths of a percent
FloorPct(floor) == [num |-> floor, den |-> 100]

\* n.nspname NOT LIKE 'pg_toast%'
IsToastSchema(s) == s \in {"pg_toast", "pg_toast_temp_1"}

\* "AND schema_name = ANY(%s)" appended also for an empty list
Eligible_AlwaysFilters(tbls, floor, schemas) ==
    { i \in DOMAIN tbls :
        /\ tbls[i].relkind = "r"
        /\ tbls[i].schema \notin {"pg_catalog", "information_schema"}
        /\ ~IsToastSchema(tbls[i].schema)
        /\ RatGE(ApproxDeadPct(tbls[i].live, tbls[i].dead), FloorPct(floor))
        /\ \E k \in 1..Len(schemas) : schemas[k] = << tbls[i].schema >> }

\* the WHERE clauses of the query
Eligible(tbls, floor, schemas) ==
    { i \in DOMAIN tbls :
        /\ tbls[i].relkind = "r"
        /\ tbls[i].schema \notin {"pg_catalog", "information_schema"}
        /\ ~IsToastSchema(tbls[i].schema)
        /\ RatGE(ApproxDeadPct(tbls[i].live, tbls[i].dead), FloorPct(floor))
        /\ (schemas # << >> =>
               \E k \in 1..Len(schemas) : schemas[k] = << tbls[i].schema >>) }

\* SELECT schema_name, table_name, fqname, approx_dead_pct
Row(tbls, i) ==
    [id |-> i, schema |-> tbls[i].schema,
     pct |-> ApproxDeadPct(tbls[i].live, tbls[i].dead)]

\* ORDER BY approx_dead_pct, without DESC
OrderedDesc_Ascending(rows) ==
    \A i \in 1..(Len(rows) - 1) : RatGE(rows[i + 1].pct, rows[i].pct)

\* ORDER BY approx_dead_pct DESC
OrderedDesc(rows) ==
    \A i \in 1..(Len(rows) - 1) : RatGE(rows[i].pct, rows[i + 1].pct)

\* LIMIT n
Limit(rows, n) == SubSeq(rows, 1, IF n < Len(rows) THEN n ELSE Len(rows))

\* Every result the query may return: ties are ordered as the server likes.
QueryResults(tbls, floor, schemas, cap) ==
    LET E == Eligible(tbls, floor, schemas)
        n == Cardinality(E)
        orders == { o \in [1..n -> E] : \A i, j \in 1..n : i # j => o[i] # o[j] }
        sorted == { rows \in { [i \in 1..n |-> Row(tbls, o[i])] : o \in orders } :
                      OrderedDesc(rows) }
    IN  { Limit(rows, cap) : rows \in sorted }

-----------------------------------------------------------------------------
(* main() *)

Init ==
    /\ pc = "connect"
    /\ tables \in Catalogs
    /\ cfg \in [floor : FloorChoices, cap : CapChoices, schemas : SchemaListChoices]
    /\ conn = "none"
    /\ raised = "none"
    /\ exitCode = Null
    /\ candidates = << >>
    /\ idx = 0
    /\ checked = 0
    /\ analyzed = 0
    /\ remediated = 0
    /\ skipped = 0
    /\ calls = << >>
    /\ outcomes = << >>
    /\ summary = << >>

\* a statement on table id (0: no table), its result ("ok" | "Error" | "Exception")
\* and the value it returned (Null: none)
Call(op, id, res, val) == [op |-> op, id |-> id, res |-> res, val |-> val]

\* the list walked from its end: for ... in reversed(candidates)
Cur_Reversed == candidates[Len(candidates) + 1 - idx]

\* the candidate the for loop is at
Cur == candidates[idx]

counters == << checked, analyzed, remediated, skipped >>
loopVars == << candidates, idx, checked, analyzed, remediated, skipped, outcomes, summary >>

\* sys.exit(2) at both fatal exits
ExitStatus_SameCode(r) ==
    CASE r = "none" -> 0
      [] r = "SystemExit2" -> 2
      [] r = "SystemExit3" -> 2
      [] OTHER -> 1

\* Python's exit status for what leaves main()
ExitStatus(r) ==
    CASE r = "none" -> 0
      [] r = "SystemExit2" -> 2
      [] r = "SystemExit3" -> 3
      [] OTHER -> 1

\* conn = connect()
ConnectOk ==
    /\ pc = "connect"
    /\ conn' = "open"
    /\ pc' = "set_timeouts"
    /\ UNCHANGED << tables, cfg, raised, exitCode, calls >>
    /\ UNCHANGED loopVars

\* except OperationalError: sys.exit(2), outside the try/finally
ConnectFail ==
    /\ pc = "connect"
    /\ raised' = "SystemExit2"
    /\ exitCode' = ExitStatus("SystemExit2")
    /\ pc' = "done"
    /\ UNCHANGED << tables, cfg, conn, calls >>
    /\ UNCHANGED loopVars

\* a statement before the loop raises: nothing catches it, the finally block runs
Escapes(op) ==
    /\ calls' = Append(calls, Call(op, 0, "Error", Null))
    /\ raised' = "Error"
    /\ pc' = "finally"
    /\ UNCHANGED << tables, cfg, conn, exitCode >>
    /\ UNCHANGED loopVars

Proceeds(op, val, next) ==
    /\ calls' = Append(calls, Call(op, 0, "ok", val))
    /\ pc' = next
    /\ UNCHANGED << tables, cfg, conn, raised, exitCode >>
    /\ UNCHANGED loopVars

SetSessionTimeouts ==
    /\ pc = "set_timeouts"
    /\ Proceeds("SET", Null, "extension")

SetSessionTimeoutsFails ==
    /\ pc = "set_timeouts"
    /\ Escapes("SET")

\* ensure_pgstattuple: the extension is there
ExtensionPresent ==
    /\ pc = "extension"
    /\ Proceeds("SELECT EXISTS", 1, "top_stats")

\* ensure_pgstattuple: the extension is missing and CREATE EXTENSION works
ExtensionCreated ==
    /\ pc = "extension"
    /\ calls' = calls \o << Call("SELECT EXISTS", 0, "ok", 0), Call("CREATE EXTENSION", 0, "ok", Null) >>
    /\ pc' = "top_stats"
    /\ UNCHANGED << tables, cfg, conn, raised, exitCode >>
    /\ UNCHANGED loopVars

\* the return value of ensure_pgstattuple ignored: the run goes on
ExtensionMissing_Continues ==
    /\ pc = "extension"
    /\ calls' = calls \o << Call("SELECT EXISTS", 0, "ok", 0), Call("CREATE EXTENSION", 0, "Error", Null) >>
    /\ pc' = "top_stats"
    /\ UNCHANGED << tables, cfg, conn, raised, exitCode >>
    /\ UNCHANGED loopVars

\* sys.exit(3) before the try block: the finally block is not run
ExtensionMissing_NoFinally ==
    /\ pc = "extension"
    /\ calls' = calls \o << Call("SELECT EXISTS", 0, "ok", 0), Call("CREATE EXTENSION", 0, "Error", Null) >>
    /\ raised' = "SystemExit3"
    /\ exitCode' = ExitStatus("SystemExit3")
    /\ pc' = "done"
    /\ UNCHANGED << tables, cfg, conn >>
    /\ UNCHANGED loopVars

\* ensure_pgstattuple returns False: sys.exit(3) inside the try
ExtensionMissing ==
    /\ pc = "extension"
    /\ calls' = calls \o << Call("SELECT EXISTS", 0, "ok", 0), Call("CREATE EXTENSION", 0, "Error", Null) >>
    /\ raised' = "SystemExit3"
    /\ pc' = "finally"
    /\ UNCHANGED << tables, cfg, conn, exitCode >>
    /\ UNCHANGED loopVars

\* the existence query itself raises
ExtensionCheckFails ==
    /\ pc = "extension"
    /\ Escapes("SELECT EXISTS")

LogTopTableStats ==
    /\ pc = "top_stats"
    /\ Proceeds("TOP TABLES", Null, "select")

LogTopTableStatsFails ==
    /\ pc = "top_stats"
    /\ Escapes("TOP TABLES")

\* candidates = get_candidate_tables(conn)
GetCandidateTables ==
    /\ pc = "select"
    /\ \E rows \in QueryResults(tables, cfg.floor, cfg.schemas, cfg.cap) :
          candidates' = rows
    /\ calls' = Append(calls, Call("PREFILTER", 0, "ok", Null))
    /\ pc' = "candidates"
    /\ UNCHANGED << tables, cfg, conn, raised, exitCode, idx, outcomes, summary >>
    /\ UNCHANGED counters

GetCandidateTablesFails ==
    /\ pc = "select"
    /\ Escapes("PREFILTER")

\* if not candidates: ... return
NothingToDo ==
    /\ pc = "candidates"
    /\ candidates = << >>
    /\ summary' = Append(summary, [kind |-> "NOTHING TO DO"])
    /\ pc' = "finally"
    /\ UNCHANGED << tables, cfg, conn, raised, exitCode, candidates, idx, calls, outcomes >>
    /\ UNCHANGED counters

\* checked = analyzed = remediated = skipped = 0
StartLoop ==
    /\ pc = "candidates"
    /\ candidates # << >>
    /\ checked' = 0
    /\ analyzed' = 0
    /\ remediated' = 0
    /\ skipped' = 0
    /\ pc' = "for"
    /\ UNCHANGED << tables, cfg, conn, raised, exitCode, candidates, idx, calls, outcomes, summary >>

-----------------------------------------------------------------------------
(* the for loop over the candidates *)

fixed == << tables, cfg, conn, raised, exitCode, candidates, summary >>

\* the closing log line of a candidate
Outcome(line) == [id |-> Cur.id, line |-> line]

\* a handler counts the skip, logs it and the loop goes on
Skip(line) ==
    /\ skipped' = skipped + 1
    /\ outcomes' = Append(outcomes, Outcome(line))
    /\ pc' = "for"

\* for ... in candidates: checked += 1
ForNext ==
    /\ pc = "for"
    /\ idx < Len(candidates)
    /\ idx' = idx + 1
    /\ checked' = checked + 1
    /\ pc' = "analyze"
    /\ UNCHANGED << analyzed, remediated, skipped, calls, outcomes >>
    /\ UNCHANGED fixed

\* analyze_table(...) without the analyzed += 1
AnalyzeOk_NotCounted ==
    /\ pc = "analyze"
    /\ calls' = Append(calls, Call("ANALYZE", Cur.id, "ok", Null))
    /\ pc' = "measure"
    /\ UNCHANGED << idx, checked, analyzed, remediated, skipped, outcomes >>
    /\ UNCHANGED fixed

\* analyze_table(...); analyzed += 1
AnalyzeOk ==
    /\ pc = "analyze"
    /\ calls' = Append(calls, Call("ANALYZE", Cur.id, "ok", Null))
    /\ analyzed' = analyzed + 1
    /\ pc' = "measure"
    /\ UNCHANGED << idx, checked, remediated, skipped, outcomes >>
    /\ UNCHANGED fixed

\* no handler around the ANALYZE: the error leaves the loop
AnalyzeError_Aborts ==
    /\ pc = "analyze"
    /\ calls' = Append(calls, Call("ANALYZE", Cur.id, "Error", Null))
    /\ raised' = "Error"
    /\ pc' = "finally"
    /\ UNCHANGED << tables, cfg, conn, exitCode >>
    /\ UNCHANGED loopVars

\* the handler without its "continue": the measurement follows
AnalyzeError_NoContinue ==
    /\ pc = "analyze"
    /\ calls' = Append(calls, Call("ANALYZE", Cur.id, "Error", Null))
    /\ skipped' = skipped + 1
    /\ outcomes' = Append(outcomes, Outcome("ANALYZE: SKIP"))
    /\ pc' = "measure"
    /\ UNCHANGED << idx, checked, analyzed, remediated >>
    /\ UNCHANGED fixed

\* inner "except Error": skipped += 1; continue
AnalyzeError ==
    /\ pc = "analyze"
    /\ calls' = Append(calls, Call("ANALYZE", Cur.id, "Error", Null))
    /\ Skip("ANALYZE: SKIP")
    /\ UNCHANGED << idx, checked, analyzed, remediated >>
    /\ UNCHANGED fixed

\* the exception swallowed around the ANALYZE: the measurement follows
AnalyzeException_FallsThrough ==
    /\ pc = "analyze"
    /\ calls' = Append(calls, Call("ANALYZE", Cur.id, "Exception", Null))
    /\ pc' = "measure"
    /\ UNCHANGED << idx, checked, analyzed, remediated, skipped, outcomes >>
    /\ UNCHANGED fixed

\* no "except Exception": the exception leaves the loop and main()
AnalyzeException_Propagates ==
    /\ pc = "analyze"
    /\ calls' = Append(calls, Call("ANALYZE", Cur.id, "Exception", Null))
    /\ raised' = "Error"
    /\ pc' = "finally"
    /\ UNCHANGED << tables, cfg, conn, exitCode >>
    /\ UNCHANGED loopVars

\* an exception that is no psycopg2.Error passes the inner handler and is
\* caught by the outer "except Exception"
AnalyzeException ==
    /\ pc = "analyze"
    /\ calls' = Append(calls, Call("ANALYZE", Cur.id, "Exception", Null))
    /\ Skip("Unexpected error: SKIP")
    /\ UNCHANGED << idx, checked, analyzed, remediated >>
    /\ UNCHANGED fixed

\* dead_pct = get_pgstattuple_dead_percent(conn, fqname)
MeasureOk ==
    /\ pc = "measure"
    /\ \E v \in MeasuredValues :
          calls' = Append(calls, Call("PGSTATTUPLE", Cur.id, "ok", v))
    /\ pc' = "decide"
    /\ UNCHANGED << idx, checked, analyzed, remediated, skipped, outcomes >>
    /\ UNCHANGED fixed

\* the handler logs the skip without counting it
MeasureError_NotCounted ==
    /\ pc = "measure"
    /\ calls' = Append(calls, Call("PGSTATTUPLE", Cur.id, "Error", Null))
    /\ outcomes' = Append(outcomes, Outcome("pgstattuple: SKIP"))
    /\ pc' = "for"
    /\ UNCHANGED << idx, checked, analyzed, remediated, skipped >>
    /\ UNCHANGED fixed

\* outer "except Error"
MeasureError ==
    /\ pc = "measure"
    /\ calls' = Append(calls, Call("PGSTATTUPLE", Cur.id, "Error", Null))
    /\ Skip("pgstattuple: SKIP")
    /\ UNCHANGED << idx, checked, analyzed, remediated >>
    /\ UNCHANGED fixed

\* float(None) and the like: outer "except Exception"
MeasureException ==
    /\ pc = "measure"
    /\ calls' = Append(calls, Call("PGSTATTUPLE", Cur.id, "Exception", Null))
    /\ Skip("Unexpected error: SKIP")
    /\ UNCHANGED << idx, checked, analyzed, remediated >>
    /\ UNCHANGED fixed

\* the value get_pgstattuple_dead_percent just returned
dead_pct == calls[Len(calls)].val

\* the comparison turned around
Below_Inverted(pct) == pct > DEAD_TUPLE_PERCENT_THRESHOLD

\* the comparison with equality on the wrong side
Below_Inclusive(pct) == pct <= DEAD_TUPLE_PERCENT_THRESHOLD

\* if dead_pct < DEAD_TUPLE_PERCENT_THRESHOLD
Below(pct) == pct < DEAD_TUPLE_PERCENT_THRESHOLD

\* the below-threshold branch without its log line
BelowThreshold_NoLine ==
    /\ pc = "decide"
    /\ Below(dead_pct)
    /\ pc' = "for"
    /\ UNCHANGED << idx, checked, analyzed, remediated, skipped, calls, outcomes >>
    /\ UNCHANGED fixed

\* "Result: below threshold -> VACUUM skipped"; continue
BelowThreshold ==
    /\ pc = "decide"
    /\ Below(dead_pct)
    /\ outcomes' = Append(outcomes, Outcome("below threshold"))
    /\ pc' = "for"
    /\ UNCHANGED << idx, checked, analyzed, remediated, skipped, calls >>
    /\ UNCHANGED fixed

\* vacuum_analyze_table(...); remediated += 1
VacuumOk ==
    /\ pc = "decide"
    /\ ~Below(dead_pct)
    /\ calls' = Append(calls, Call("VACUUM", Cur.id, "ok", Null))
    /\ remediated' = remediated + 1
    /\ outcomes' = Append(outcomes, Outcome("VACUUM (ANALYZE): OK"))
    /\ pc' = "for"
    /\ UNCHANGED << idx, checked, analyzed, skipped >>
    /\ UNCHANGED fixed

\* remediated += 1 placed before the VACUUM instead of after it
VacuumError_CountsBoth ==
    /\ pc = "decide"
    /\ ~Below(dead_pct)
    /\ calls' = Append(calls, Call("VACUUM", Cur.id, "Error", Null))
    /\ remediated' = remediated + 1
    /\ Skip("VACUUM (ANALYZE): SKIP")
    /\ UNCHANGED << idx, checked, analyzed >>
    /\ UNCHANGED fixed

\* the VACUUM sent a second time after it failed
VacuumError_Retries ==
    /\ pc = "decide"
    /\ ~Below(dead_pct)
    /\ calls' = calls \o << Call("VACUUM", Cur.id, "Error", Null),
                           Call("VACUUM", Cur.id, "Error", Null) >>
    /\ Skip("VACUUM (ANALYZE): SKIP")
    /\ UNCHANGED << idx, checked, analyzed, remediated >>
    /\ UNCHANGED fixed

\* "except Error" around the VACUUM
VacuumError ==
    /\ pc = "decide"
    /\ ~Below(dead_pct)
    /\ calls' = Append(calls, Call("VACUUM", Cur.id, "Error", Null))
    /\ Skip("VACUUM (ANALYZE): SKIP")
    /\ UNCHANGED << idx, checked, analyzed, remediated >>
    /\ UNCHANGED fixed

\* outer "except Exception"
VacuumException ==
    /\ pc = "decide"
    /\ ~Below(dead_pct)
    /\ calls' = Append(calls, Call("VACUUM", Cur.id, "Exception", Null))
    /\ Skip("Unexpected error: SKIP")
    /\ UNCHANGED << idx, checked, analyzed, remediated >>
    /\ UNCHANGED fixed

\* the SUMMARY block only for a run without skips
Summary_OnlyWithoutSkips ==
    /\ pc = "for"
    /\ idx = Len(candidates)
    /\ summary' = IF skipped = 0
                  THEN Append(summary, [kind |-> "SUMMARY", checked |-> checked,
                                        analyzed |-> analyzed, remediated |-> remediated,
                                        skipped |-> skipped])
                  ELSE summary
    /\ pc' = "finally"
    /\ UNCHANGED << tables, cfg, conn, raised, exitCode, candidates, idx, calls, outcomes >>
    /\ UNCHANGED counters

\* the loop is exhausted: the SUMMARY block
Summary ==
    /\ pc = "for"
    /\ idx = Len(candidates)
    /\ summary' = Append(summary, [kind |-> "SUMMARY", checked |-> checked,
                                   analyzed |-> analyzed, remediated |-> remediated,
                                   skipped |-> skipped])
    /\ pc' = "finally"
    /\ UNCHANGED << tables, cfg, conn, raised, exitCode, candidates, idx, calls, outcomes >>
    /\ UNCHANGED counters

\* finally: conn.close() (its own failure is swallowed); then main() is left
Finally ==
    /\ pc = "finally"
    /\ conn' = "closed"
    /\ exitCode' = ExitStatus(raised)
    /\ pc' = "done"
    /\ UNCHANGED << tables, cfg, raised, calls >>
    /\ UNCHANGED loopVars

Next ==
    \/ ConnectOk
    \/ ConnectFail
    \/ SetSessionTimeouts
    \/ SetSessionTimeoutsFails
    \/ ExtensionPresent
    \/ ExtensionCreated
    \/ ExtensionMissing
    \/ ExtensionCheckFails
    \/ LogTopTableStats
    \/ LogTopTableStatsFails
    \/ GetCandidateTables
    \/ GetCandidateTablesFails
    \/ NothingToDo
    \/ StartLoop
    \/ ForNext
    \/ AnalyzeOk
    \/ AnalyzeError
    \/ AnalyzeException
    \/ MeasureOk
    \/ MeasureError
    \/ MeasureException
    \/ BelowThreshold
    \/ VacuumOk
    \/ VacuumError
    \/ VacuumException
    \/ Summary
    \/ Finally

Spec == Init /\ [][Next]_vars

\* One thread runs main() and every database call returns (the statement and
\* lock timeouts turn a blocked call into an error): a step that can be taken
\* is taken.
FairSpec == Spec /\ WF_vars(Next)

TypeOK ==
    /\ pc \in {"connect", "set_timeouts", "extension", "top_stats", "select", "candidates",
               "for", "analyze", "measure", "decide", "finally", "done"}
    /\ conn \in {"none", "open", "closed"}
    /\ idx \in 0..Len(candidates)
    /\ checked \in Nat /\ analyzed \in Nat /\ remediated \in Nat /\ skipped \in Nat

-----------------------------------------------------------------------------
(* Vocabulary of the properties *)

\* the statements of kind op sent for table id
CallsOf(op, id) == { k \in 1..Len(calls) : calls[k].op = op /\ calls[k].id = id }

\* the statements op sent for table id that ended with res
CallsEnded(op, id, res) == { k \in CallsOf(op, id) : calls[k].res = res }

\* the closing log lines written for table id
OutcomesOf(id) == { k \in 1..Len(outcomes) : outcomes[k].id = id }

OutcomeLines(id) == { outcomes[k].line : k \in OutcomesOf(id) }

SkipLines == {"ANALYZE: SKIP", "pgstattuple: SKIP", "VACUUM (ANALYZE): SKIP",
              "Unexpected error: SKIP"}

\* the loop is done with the candidate at position i
Finished(i) == i < idx \/ (i = idx /\ pc \in {"for", "finally", "done"})

FinishedIds == { candidates[i].id : i \in { j \in 1..Len(candidates) : Finished(j) } }

CandidateIds == { candidates[i].id : i \in 1..Len(candidates) }

\* a step of table id failed
Failed(id) ==
    \E k \in 1..Len(calls) : calls[k].id = id /\ calls[k].res # "ok"

InLoop == pc \in {"for", "analyze", "measure", "decide"}

\* the SUMMARY blocks logged
Summaries == { k \in 1..Len(summary) : summary[k].kind = "SUMMARY" }

-----------------------------------------------------------------------------
\* C1: a failing refresh, measurement or remediation never aborts the run: while
\* the loop runs nothing propagates out of main(), the loop is left only after
\* the last candidate, every candidate the loop has passed or is at has been
\* sent its own ANALYZE, and a run that started the loop ends with the SUMMARY
\* block and every candidate refreshed.
C1_FailureIsolation ==
    /\ InLoop => raised = "none"
    /\ (InLoop /\ pc # "for") => idx \in 1..Len(candidates)
    /\ \A i \in 1..Len(candidates) :
          Finished(i) => Cardinality(CallsOf("ANALYZE", candidates[i].id)) = 1
    /\ (pc \in {"finally", "done"} /\ candidates # << >>) =>
          /\ raised = "none"
          /\ idx = Len(candidates)
          /\ Cardinality(Summaries) = 1
          /\ \A id \in CandidateIds : Cardinality(CallsOf("ANALYZE", id)) = 1

\* a run whose first candidate failed and whose later candidate was refreshed
\* all the same, ended with the summary
C1_Witness ==
    /\ pc = "done"
    /\ Len(candidates) >= 2
    /\ Failed(candidates[1].id)
    /\ CallsOf("ANALYZE", candidates[2].id) # {}
    /\ Cardinality(Summaries) = 1

-----------------------------------------------------------------------------
\* C2 as stated: between candidates analyzed + remediated + skipped = checked.
C2_Original ==
    pc \in {"for", "finally", "done"} => analyzed + remediated + skipped = checked

\* C2 amended: checked counts the candidates started, one each; analyzed counts
\* the successful ANALYZE statements, whatever follows them; remediated counts
\* the "VACUUM (ANALYZE): OK" lines and skipped the SKIP lines, a candidate
\* getting at most one such line; so remediated + skipped <= checked and
\* analyzed <= checked, and between candidates checked = analyzed + the
\* candidates skipped at the refresh.
C2_Amended ==
    /\ checked = idx
    /\ analyzed = Cardinality({ k \in 1..Len(calls) :
                                  calls[k].op = "ANALYZE" /\ calls[k].res = "ok" })
    /\ remediated = Cardinality({ k \in 1..Len(outcomes) :
                                    outcomes[k].line = "VACUUM (ANALYZE): OK" })
    /\ skipped = Cardinality({ k \in 1..Len(outcomes) : outcomes[k].line \in SkipLines })
    /\ \A id \in CandidateIds : Cardinality(OutcomesOf(id)) <= 1
    /\ remediated + skipped <= checked
    /\ analyzed <= checked
    /\ pc \in {"for", "finally", "done"} =>
          checked = analyzed + Cardinality({ id \in CandidateIds :
                                               /\ CallsOf("ANALYZE", id) # {}
                                               /\ CallsEnded("ANALYZE", id, "ok") = {} })

\* a candidate counted in analyzed and in skipped: the sum exceeds checked
C2_Witness ==
    /\ pc = "for"
    /\ checked = 1
    /\ analyzed = 1
    /\ skipped = 1
    /\ remediated = 0

-----------------------------------------------------------------------------
\* C3: every candidate the loop is done with has exactly one closing line, one
\* of below-threshold (Analyzed), VACUUM OK (Remediated) or a SKIP line; a
\* candidate not yet finished has none; and the SUMMARY block reports
\* checked = the number of candidates the prefilter returned.
C3_OneOutcomePerCandidate ==
    /\ \A i \in 1..Len(candidates) :
          Cardinality(OutcomesOf(candidates[i].id)) = (IF Finished(i) THEN 1 ELSE 0)
    /\ \A k \in 1..Len(outcomes) :
          /\ outcomes[k].id \in CandidateIds
          /\ outcomes[k].line \in SkipLines \cup {"below threshold", "VACUUM (ANALYZE): OK"}
    /\ \A k \in Summaries :
          /\ summary[k].checked = Len(candidates)
          /\ Len(outcomes) = Len(candidates)

\* a summary over several candidates, one of them with a failed step, one
\* below the threshold
C3_Witness ==
    /\ Summaries # {}
    /\ Len(candidates) >= 2
    /\ \E id \in CandidateIds : Failed(id)
    /\ \E id \in CandidateIds : OutcomeLines(id) = {"below threshold"}

-----------------------------------------------------------------------------
\* the ids whose ANALYZE ended with a result other than "ok"
RefreshFailedIds ==
    { calls[k].id : k \in { j \in 1..Len(calls) : calls[j].op = "ANALYZE" /\ calls[j].res # "ok" } }

\* C4 as stated: whatever the error of the refresh, no measurement and no
\* remediation is sent for the candidate and its one closing line is the skip
\* of the refresh step.
C4_Original ==
    \A id \in RefreshFailedIds :
        /\ CallsOf("PGSTATTUPLE", id) = {}
        /\ CallsOf("VACUUM", id) = {}
        /\ OutcomeLines(id) = {"ANALYZE: SKIP"}

\* C4 amended: a candidate whose refresh fails is never measured nor
\* remediated and is counted in skipped exactly once; its closing line is the
\* skip of the refresh step when the failure is a database error
\* (psycopg2.Error) and the "Unexpected error" skip, which names no step, for
\* any other exception.
C4_Amended ==
    /\ \A id \in RefreshFailedIds :
          /\ CallsOf("PGSTATTUPLE", id) = {}
          /\ CallsOf("VACUUM", id) = {}
          /\ Cardinality(CallsOf("ANALYZE", id)) = 1
          /\ Cardinality(OutcomesOf(id)) = 1
          /\ CallsEnded("ANALYZE", id, "Error") # {} => OutcomeLines(id) = {"ANALYZE: SKIP"}
          /\ CallsEnded("ANALYZE", id, "Exception") # {} =>
                OutcomeLines(id) = {"Unexpected error: SKIP"}
    /\ skipped = Cardinality({ k \in 1..Len(outcomes) : outcomes[k].line \in SkipLines })
    /\ skipped >= Cardinality(RefreshFailedIds)

\* both kinds of refresh failure in one run, the run complete
C4_Witness ==
    /\ pc = "done"
    /\ \E a, b \in RefreshFailedIds :
          /\ CallsEnded("ANALYZE", a, "Error") # {}
          /\ CallsEnded("ANALYZE", b, "Exception") # {}
    /\ skipped = 2

-----------------------------------------------------------------------------
\* the ids measured with a value v such that P(v)
MeasuredIds(P(_)) ==
    { calls[k].id : k \in { j \in 1..Len(calls) : /\ calls[j].op = "PGSTATTUPLE"
                                                    /\ calls[j].res = "ok"
                                                    /\ P(calls[j].val) } }

StrictlyBelow(v) == v < DEAD_TUPLE_PERCENT_THRESHOLD
AtOrAbove(v) == v >= DEAD_TUPLE_PERCENT_THRESHOLD

\* C5: a candidate measured strictly below the threshold is never sent a
\* VACUUM and closes with the below-threshold line; the step that decides on
\* such a measurement leaves remediated and skipped as they are.
C5_BelowNeverRemediated ==
    /\ [](\A id \in MeasuredIds(StrictlyBelow) :
            /\ CallsOf("VACUUM", id) = {}
            /\ OutcomeLines(id) \subseteq {"below threshold"}
            /\ id \in FinishedIds => OutcomeLines(id) = {"below threshold"})
    /\ [][(pc = "decide" /\ StrictlyBelow(dead_pct)) =>
            /\ remediated' = remediated
            /\ skipped' = skipped
            /\ calls' = calls
            /\ pc' = "for"]_vars

\* a finished run with a candidate measured just below the threshold
C5_Witness ==
    /\ pc = "done"
    /\ MeasuredIds(StrictlyBelow) # {}
    /\ remediated = 0
    /\ skipped = 0
    /\ analyzed >= 1

-----------------------------------------------------------------------------
\* C6: a candidate refreshed and measured at or above the threshold is sent
\* exactly one VACUUM once the loop is done with it, and none before its
\* measurement, whatever its approximate percentage.
C6_AtOrAboveRemediatedOnce ==
    \A id \in MeasuredIds(AtOrAbove) :
        /\ CallsEnded("ANALYZE", id, "ok") # {}
        /\ Cardinality(CallsOf("VACUUM", id)) = (IF id \in FinishedIds THEN 1 ELSE 0)
        /\ \A k \in CallsOf("VACUUM", id) :
              \E m \in CallsEnded("PGSTATTUPLE", id, "ok") : m < k

\* a candidate with approximate percentage 0 measured exactly at the threshold
\* and vacuumed
C6_Witness ==
    \E i \in 1..Len(candidates) :
        /\ Finished(i)
        /\ candidates[i].pct.num = 0
        /\ \E k \in CallsEnded("PGSTATTUPLE", candidates[i].id, "ok") :
              calls[k].val = DEAD_TUPLE_PERCENT_THRESHOLD
        /\ CallsEnded("VACUUM", candidates[i].id, "ok") # {}

-----------------------------------------------------------------------------
\* the counters of table i with NULL read as 0
Live(i) == IF tables[i].live = Null THEN 0 ELSE tables[i].live
Dead(i) == IF tables[i].dead = Null THEN 0 ELSE tables[i].dead

\* table i's approximate percentage is at least the floor (in hundredths of a
\* percent), from its counters
AtLeastFloor(i) ==
    IF Live(i) + Dead(i) = 0
    THEN cfg.floor <= 0
    ELSE 100 * 100 * Dead(i) >= cfg.floor * (Live(i) + Dead(i))

\* C7: the rows the prefilter returned are in descending order of approximate
\* percentage, are at most MAX_TABLES_TO_CHECK, and each is of a table whose
\* approximate percentage is at least the floor.
C7_PrefilterSortedCappedFloored ==
    /\ Len(candidates) <= cfg.cap
    /\ \A i, j \in 1..Len(candidates) :
          i < j => candidates[i].pct.num * candidates[j].pct.den
                     >= candidates[j].pct.num * candidates[i].pct.den
    /\ \A i \in 1..Len(candidates) :
          /\ AtLeastFloor(candidates[i].id)
          /\ 100 * candidates[i].pct.num >= cfg.floor * candidates[i].pct.den

\* a result cut by the cap, of two rows of different percentage
C7_Witness ==
    /\ pc = "candidates"
    /\ Len(candidates) = 2
    /\ cfg.cap = 2
    /\ Cardinality(Eligible(tables, cfg.floor, cfg.schemas)) > 2
    /\ candidates[1].pct # candidates[2].pct

-----------------------------------------------------------------------------
\* C8: the approximate percentage of every table is 0 when live + dead = 0
\* (NULL counters read as 0) and 100 * dead / (live + dead) otherwise; a table
\* with no rows is no candidate under a floor above 0; and a table below the
\* floor is never sent an ANALYZE, a pgstattuple or a VACUUM.
C8_ApproxPct ==
    /\ \A i \in DOMAIN tables :
          LET p == ApproxDeadPct(tables[i].live, tables[i].dead)
          IN  /\ p.den > 0
              /\ IF Live(i) + Dead(i) = 0
                 THEN p.num = 0
                 ELSE p.num * (Live(i) + Dead(i)) = 100 * Dead(i) * p.den
    /\ \A i \in 1..Len(candidates) :
          candidates[i].pct = ApproxDeadPct(tables[candidates[i].id].live,
                                            tables[candidates[i].id].dead)
    /\ cfg.floor > 0 =>
          \A i \in 1..Len(candidates) :
              Live(candidates[i].id) + Dead(candidates[i].id) # 0
    /\ \A i \in 1..Len(candidates) : AtLeastFloor(candidates[i].id)
    /\ \A k \in 1..Len(calls) : calls[k].id # 0 => AtLeastFloor(calls[k].id)

\* floor 1.0%: the table with live = 1000, dead = 5 and a table without rows
\* are left alone while the table with live = 100, dead = 50 is vacuumed
C8_Witness ==
    /\ pc = "done"
    /\ cfg.floor = 100
    /\ \E i, j, z \in DOMAIN tables :
          /\ tables[i].live = 1000 /\ tables[i].dead = 5
          /\ tables[z].live = Null /\ tables[z].schema = "app"
          /\ tables[j].live = 100 /\ tables[j].dead = 50
          /\ CallsEnded("VACUUM", j, "ok") # {}
          /\ CallsOf("ANALYZE", i) = {}
          /\ CallsOf("ANALYZE", z) = {}

-----------------------------------------------------------------------------
\* the connect() call failed
ConnectionUnavailable == pc = "done" /\ conn = "none"

\* ensure_pgstattuple returned False
CapabilityMissing ==
    \E k \in 1..Len(calls) : calls[k].op = "CREATE EXTENSION" /\ calls[k].res = "Error"

\* a statement before the loop raised and nothing caught it
SetupError == \E k \in 1..Len(calls) : calls[k].id = 0 /\ calls[k].op # "CREATE EXTENSION"
                                        /\ calls[k].res = "Error"

\* main() returned
Completed == pc = "done" /\ raised = "none"

\* C9 as stated: every completed run, also one without candidates, has logged
\* exactly one SUMMARY block, and a run that ends without one was stopped by
\* an error.
C9_Original ==
    /\ Completed => Cardinality(Summaries) = 1
    /\ (pc = "done" /\ Summaries = {}) => ~Completed

\* C9 amended: a run that completes with at least one candidate, whatever the
\* number of skips, has logged exactly one SUMMARY block holding the four
\* counters; a run that completes with no candidate has logged the "nothing to
\* do" notice and no SUMMARY; every other run was stopped by the connection
\* failure, the missing capability, or an error escaping the session setup,
\* the extension check, the diagnostic listing or the prefilter, and has logged
\* neither.
C9_Amended ==
    /\ Len(summary) <= 1
    /\ pc # "done" => \/ summary = << >>
                      \/ pc = "finally"
    /\ (Completed /\ candidates # << >>) =>
          summary = << [kind |-> "SUMMARY", checked |-> checked, analyzed |-> analyzed,
                        remediated |-> remediated, skipped |-> skipped] >>
    /\ (Completed /\ candidates = << >>) => summary = << [kind |-> "NOTHING TO DO"] >>
    /\ (pc = "done" /\ ~Completed) =>
          /\ summary = << >>
          /\ ConnectionUnavailable \/ CapabilityMissing \/ SetupError

\* a completed run all of whose candidates, more than one, were skipped
C9_Witness ==
    /\ Completed
    /\ Len(candidates) >= 2
    /\ Cardinality(Summaries) = 1
    /\ summary[1].skipped = Len(candidates)

-----------------------------------------------------------------------------
\* C10: the exit status is 2 exactly for the failed connection, 3 exactly for
\* the missing capability and 0 exactly for the runs that returned from
\* main(); a run without candidates and a run with skipped candidates exit 0.
C10_ExitSignals ==
    /\ pc # "done" => exitCode = Null
    /\ pc = "done" =>
          /\ exitCode \in {0, 1, 2, 3}
          /\ exitCode = 2 <=> ConnectionUnavailable
          /\ exitCode = 3 <=> CapabilityMissing
          /\ exitCode = 0 <=> summary # << >>
          /\ (candidates = << >> /\ summary # << >>) => exitCode = 0
          /\ (skipped > 0 /\ idx = Len(candidates)) => exitCode = 0

\* a run in which every candidate was skipped exits 0
C10_Witness ==
    /\ pc = "done"
    /\ exitCode = 0
    /\ Len(candidates) >= 2
    /\ skipped = Len(candidates)

-----------------------------------------------------------------------------
\* the statements that work on the tables: the prefilter and the three steps
TableWork == { k \in 1..Len(calls) :
                 calls[k].op \in {"PREFILTER", "ANALYZE", "PGSTATTUPLE", "VACUUM"} }

\* the extension was found, or was created
CapabilityThere(k) ==
    \/ calls[k].op = "SELECT EXISTS" /\ calls[k].res = "ok" /\ calls[k].val = 1
    \/ calls[k].op = "CREATE EXTENSION" /\ calls[k].res = "ok"

\* C11: the extension check comes before all table work: with the extension
\* missing and its creation failing the run stops (exit status 3) without the
\* prefilter and without any ANALYZE, pgstattuple or VACUUM; CREATE EXTENSION is
\* sent only right after the check found the extension missing; and after a
\* successful creation the run is where it is after a successful check.
C11_CapabilityFirst ==
    /\ CapabilityMissing =>
          /\ TableWork = {}
          /\ candidates = << >>
          /\ pc \in {"finally", "done"}
          /\ raised = "SystemExit3"
    /\ \A k \in TableWork : \E j \in 1..(k - 1) : CapabilityThere(j)
    /\ \A k \in 1..Len(calls) :
          calls[k].op = "CREATE EXTENSION" =>
             /\ k > 1
             /\ calls[k - 1].op = "SELECT EXISTS"
             /\ calls[k - 1].val = 0
    /\ Cardinality({ k \in 1..Len(calls) : calls[k].op = "SELECT EXISTS" }) <= 1
    /\ (calls # << >> /\ CapabilityThere(Len(calls))) =>
          /\ pc = "top_stats"
          /\ raised = "none"
          /\ conn = "open"

\* a run that created the extension and went on to vacuum a table
C11_Witness ==
    /\ pc = "done"
    /\ \E k \in 1..Len(calls) : calls[k].op = "CREATE EXTENSION" /\ calls[k].res = "ok"
    /\ \E k \in 1..Len(calls) : calls[k].op = "VACUUM" /\ calls[k].res = "ok"

-----------------------------------------------------------------------------
\* the statements on tables sent by the step just taken
NewTableCalls == { k \in (Len(calls) + 1)..Len(calls') : calls'[k].id # 0 }

\* C12: a pgstattuple is sent for a table only after an ANALYZE of that table
\* succeeded, a VACUUM only after a pgstattuple of that table returned a value
\* at or above the threshold, and in that order; a candidate the loop is done
\* with (vacuumed, below the threshold or skipped) gets no further statement
\* and no further closing line.
C12_StepOrder ==
    /\ [](\A k \in 1..Len(calls) :
            /\ calls[k].op = "PGSTATTUPLE" =>
                  \E j \in 1..(k - 1) : /\ calls[j].op = "ANALYZE"
                                        /\ calls[j].id = calls[k].id
                                        /\ calls[j].res = "ok"
            /\ calls[k].op = "VACUUM" =>
                  \E j \in 1..(k - 1) : /\ calls[j].op = "PGSTATTUPLE"
                                        /\ calls[j].id = calls[k].id
                                        /\ calls[j].res = "ok"
                                        /\ calls[j].val >= DEAD_TUPLE_PERCENT_THRESHOLD
            /\ calls[k].op = "ANALYZE" =>
                  \A j \in 1..(k - 1) : calls[j].id # calls[k].id)
    /\ [][/\ \A k \in NewTableCalls :
                /\ calls'[k].id \notin FinishedIds
                /\ InLoop /\ idx >= 1 /\ calls'[k].id = candidates[idx].id
          /\ \A k \in (Len(outcomes) + 1)..Len(outcomes') :
                outcomes'[k].id \notin FinishedIds
          /\ SubSeq(calls', 1, Len(calls)) = calls
          /\ SubSeq(outcomes', 1, Len(outcomes)) = outcomes]_vars

\* one candidate through all three steps, another stopped at its refresh, a
\* third below the threshold
C12_Witness ==
    /\ pc = "done"
    /\ \E a, b, c \in CandidateIds :
          /\ CallsEnded("VACUUM", a, "ok") # {}
          /\ CallsEnded("ANALYZE", b, "Error") # {}
          /\ OutcomeLines(c) = {"below threshold"}

-----------------------------------------------------------------------------
\* the ids whose statement op ended with a result other than "ok"
FailedAt(op) ==
    { calls[k].id : k \in { j \in 1..Len(calls) : calls[j].op = op /\ calls[j].res # "ok" } }

\* C13 as stated: a failed measurement, whatever its failure, closes with the
\* skip of the measurement step and a failed remediation with the skip of the
\* remediation step.
C13_Original ==
    /\ \A id \in FailedAt("PGSTATTUPLE") : OutcomeLines(id) = {"pgstattuple: SKIP"}
    /\ \A id \in FailedAt("VACUUM") : OutcomeLines(id) = {"VACUUM (ANALYZE): SKIP"}

\* C13 amended: a failed measurement is followed by no VACUUM; a failed
\* measurement and a failed remediation each count the candidate in skipped
\* exactly once and not in remediated; the closing line names the measurement
\* step, or the remediation step, when the failure is a database error
\* (psycopg2.Error), and is the "Unexpected error" skip, which names no step,
\* for any other exception, a measurement without a usable value included.
C13_Amended ==
    /\ [](/\ \A id \in FailedAt("PGSTATTUPLE") :
               /\ CallsOf("VACUUM", id) = {}
               /\ Cardinality(OutcomesOf(id)) = 1
               /\ CallsEnded("PGSTATTUPLE", id, "Error") # {} =>
                     OutcomeLines(id) = {"pgstattuple: SKIP"}
               /\ CallsEnded("PGSTATTUPLE", id, "Exception") # {} =>
                     OutcomeLines(id) = {"Unexpected error: SKIP"}
          /\ \A id \in FailedAt("VACUUM") :
               /\ Cardinality(CallsOf("VACUUM", id)) = 1
               /\ Cardinality(OutcomesOf(id)) = 1
               /\ CallsEnded("VACUUM", id, "Error") # {} =>
                     OutcomeLines(id) = {"VACUUM (ANALYZE): SKIP"}
               /\ CallsEnded("VACUUM", id, "Exception") # {} =>
                     OutcomeLines(id) = {"Unexpected error: SKIP"}
          /\ remediated = Cardinality({ k \in 1..Len(calls) :
                                          calls[k].op = "VACUUM" /\ calls[k].res = "ok" }))
    /\ [][(/\ Len(calls') = Len(calls) + 1
           /\ calls'[Len(calls')].op \in {"PGSTATTUPLE", "VACUUM"}
           /\ calls'[Len(calls')].res # "ok") =>
              /\ skipped' = skipped + 1
              /\ remediated' = remediated
              /\ analyzed' = analyzed
              /\ pc' = "for"]_vars

\* a finished run with a measurement failed either way and a remediation
\* failed with a database error
C13_Witness ==
    /\ pc = "done"
    /\ \E a, b, c \in CandidateIds :
          /\ CallsEnded("PGSTATTUPLE", a, "Error") # {}
          /\ CallsEnded("PGSTATTUPLE", b, "Exception") # {}
          /\ CallsEnded("VACUUM", c, "Error") # {}
    /\ skipped = 3
    /\ remediated = 0

-----------------------------------------------------------------------------
\* the position of table id in the prefilter's result
Pos(id) == CHOOSE i \in 1..Len(candidates) : candidates[i].id = id

\* the statements sent on tables
TableCalls == { k \in 1..Len(calls) : calls[k].id # 0 }

\* C14: the candidates are processed one after the other in the order of the
\* prefilter's result, each once: the closing lines are those of the first
\* rows in their order, the statements on tables follow the order of the rows,
\* a statement for a row is sent only when the loop is done with all rows
\* before it, and the loop only moves forward, one row at a time.
C14_SequentialInOrder ==
    /\ [](/\ \A i, j \in 1..Len(candidates) : i # j => candidates[i].id # candidates[j].id
          /\ Len(outcomes) <= Len(candidates)
          /\ \A k \in 1..Len(outcomes) : outcomes[k].id = candidates[k].id
          /\ \A k, m \in TableCalls :
                k < m => Pos(calls[k].id) <= Pos(calls[m].id))
    /\ [][/\ \A k \in NewTableCalls :
                \A i \in 1..(Pos(calls'[k].id) - 1) : Finished(i)
          /\ idx' \in {idx, idx + 1}
          /\ idx' = idx + 1 => (idx = 0 \/ Finished(idx))]_vars

\* three candidates of strictly descending approximate percentage, all
\* processed
C14_Witness ==
    /\ pc = "done"
    /\ Len(candidates) = 3
    /\ Len(outcomes) = 3
    /\ ~RatGE(candidates[2].pct, candidates[1].pct)
    /\ ~RatGE(candidates[3].pct, candidates[2].pct)

-----------------------------------------------------------------------------
\* an ordinary table outside the system and internal schemas
UserTable(i) ==
    /\ tables[i].relkind = "r"
    /\ tables[i].schema \notin {"pg_catalog", "information_schema",
                                "pg_toast", "pg_toast_temp_1"}

\* the allow-list lets the table's schema pass
Allowed(i) ==
    \/ Len(cfg.schemas) = 0
    \/ \E k \in 1..Len(cfg.schemas) : cfg.schemas[k] = << tables[i].schema >>

EligibleTables == { i \in DOMAIN tables : UserTable(i) /\ AtLeastFloor(i) /\ Allowed(i) }

\* table a's approximate percentage is at least table b's, from the counters
PctAtLeast(a, b) ==
    LET na == IF Live(a) + Dead(a) = 0 THEN 0 ELSE Dead(a)
        da == IF Live(a) + Dead(a) = 0 THEN 1 ELSE Live(a) + Dead(a)
        nb == IF Live(b) + Dead(b) = 0 THEN 0 ELSE Dead(b)
        db == IF Live(b) + Dead(b) = 0 THEN 1 ELSE Live(b) + Dead(b)
    IN  na * db >= nb * da

PrefilterReturned ==
    \E k \in 1..Len(calls) : calls[k].op = "PREFILTER" /\ calls[k].res = "ok"

\* C15: the allow-list holds no empty and no unstripped name; once the
\* prefilter has returned, its rows are min(cap, n) different tables among
\* the n eligible ones (ordinary table, not in a system schema, at or above
\* the floor, in the allow-list unless that is empty), and no eligible table
\* left out has a higher approximate percentage than a table kept.
C15_TopOfEligible ==
    /\ \A k \in 1..Len(cfg.schemas) :
          /\ cfg.schemas[k] # << >>
          /\ Head(cfg.schemas[k]) # " "
          /\ cfg.schemas[k][Len(cfg.schemas[k])] # " "
          /\ \A j \in 1..Len(cfg.schemas[k]) : cfg.schemas[k][j] # ","
    /\ ~PrefilterReturned => candidates = << >>
    /\ PrefilterReturned =>
          /\ CandidateIds \subseteq EligibleTables
          /\ Cardinality(CandidateIds) = Len(candidates)
          /\ Len(candidates) = (IF cfg.cap < Cardinality(EligibleTables)
                                THEN cfg.cap ELSE Cardinality(EligibleTables))
          /\ \A e \in EligibleTables \ CandidateIds :
                \A c \in CandidateIds : PctAtLeast(c, e)

\* an allow-list of two names parsed from a padded string, a table of
\* another schema at or above the floor left out by it, and the cap cutting the
\* two eligible tables to the higher one
C15_Witness ==
    /\ pc = "candidates"
    /\ Len(cfg.schemas) = 2
    /\ cfg.cap = 1
    /\ Cardinality(EligibleTables) = 2
    /\ Len(candidates) = 1
    /\ \E i \in DOMAIN tables : UserTable(i) /\ AtLeastFloor(i) /\ ~Allowed(i)
    /\ \E e \in EligibleTables : ~PctAtLeast(e, candidates[1].id)

-----------------------------------------------------------------------------
\* C16: every run ends; a run that entered the loop leaves it only when the
\* loop is done with every candidate; a run that ends without a closing block
\* was stopped by the failed connection, the missing capability or an error
\* of a statement before the loop; and an ended run takes no further step.
C16_Termination ==
    /\ <>(pc = "done")
    /\ [](/\ (pc \in {"finally", "done"} /\ candidates # << >>) =>
                /\ idx = Len(candidates)
                /\ \A i \in 1..Len(candidates) : Finished(i)
                /\ Len(outcomes) = Len(candidates)
          /\ (pc \in {"finally", "done"} /\ summary = << >>) =>
                /\ ConnectionUnavailable \/ CapabilityMissing \/ SetupError
                /\ raised # "none")
    /\ [][pc # "done"]_vars

\* a run over three candidates, each with a failed step, that ended
C16_Witness ==
    /\ pc = "done"
    /\ Len(candidates) = 3
    /\ \A id \in CandidateIds : Failed(id)
    /\ exitCode = 0

-----------------------------------------------------------------------------
\* the candidates whose ANALYZE succeeded
RefreshedIds == { id \in CandidateIds : CallsEnded("ANALYZE", id, "ok") # {} }

\* C17: between candidates and at the end of the loop, analyzed is the number
\* of candidates whose refresh succeeded, remediated <= analyzed <= checked,
\* remediated + skipped <= checked and checked = analyzed + the number of
\* candidates skipped at the refresh; no step lowers a counter.
C17_CounterRelations ==
    /\ [](pc \in {"for", "finally", "done"} =>
            /\ analyzed = Cardinality(RefreshedIds)
            /\ remediated <= analyzed
            /\ analyzed <= checked
            /\ remediated + skipped <= checked
            /\ checked = analyzed + Cardinality(FailedAt("ANALYZE")))
    /\ [][/\ checked' >= checked
          /\ analyzed' >= analyzed
          /\ remediated' >= remediated
          /\ skipped' >= skipped]_vars

\* the end of a loop over three candidates: one skipped at the refresh, one
\* skipped after it, one vacuumed
C17_Witness ==
    /\ pc = "finally"
    /\ checked = 3
    /\ analyzed = 2
    /\ remediated = 1
    /\ skipped = 2
    /\ Cardinality(FailedAt("ANALYZE")) = 1

-----------------------------------------------------------------------------
\* C18: the connection is open from the successful connect() to the finally
\* block and closed when a run that opened it has ended, however it ended; no
\* statement is sent on a closed connection, which stays closed; and a run
\* whose connect() failed has no connection, closes none and sends nothing.
C18_ConnectionClosed ==
    /\ [](/\ conn = "open" <=> pc \notin {"connect", "done"}
          /\ conn = "none" => calls = << >>
          /\ pc = "done" =>
                /\ conn = "none" <=> raised = "SystemExit2"
                /\ (Completed \/ CapabilityMissing \/ SetupError) => conn = "closed")
    /\ [][/\ conn = "closed" => (calls' = calls /\ conn' = "closed")
          /\ Len(calls') > Len(calls) => (conn = "open" /\ conn' = "open")
          /\ (conn' = "closed" /\ conn # "closed") => (conn = "open" /\ pc = "finally")]_vars

\* a run stopped by an error of the prefilter query, its connection closed
C18_Witness ==
    /\ pc = "done"
    /\ conn = "closed"
    /\ raised = "Error"
    /\ calls[Len(calls)].op = "PREFILTER"
    /\ calls[Len(calls)].res = "Error"

-----------------------------------------------------------------------------
\* the tables of the catalog that the prefilter did not return
OutsideIds == (1..Len(tables)) \ CandidateIds

\* C19: ANALYZE, pgstattuple and VACUUM are sent only for rows of the
\* prefilter's result; no table gets the same statement twice; a statement
\* that failed is the last one sent for its table; every row the loop is done
\* with got exactly one ANALYZE, and when the loop has ended that is every
\* row; the tables outside the result get no statement at all.
C19_FrameNoRetry ==
    /\ \A k \in TableCalls :
          /\ calls[k].id \in CandidateIds
          /\ calls[k].op \in {"ANALYZE", "PGSTATTUPLE", "VACUUM"}
          /\ \A m \in TableCalls :
                (m > k /\ calls[m].id = calls[k].id) =>
                    /\ calls[m].op # calls[k].op
                    /\ calls[k].res = "ok"
    /\ \A id \in FinishedIds : Cardinality(CallsOf("ANALYZE", id)) = 1
    /\ (pc \in {"finally", "done"} /\ Summaries # {}) =>
          \A id \in CandidateIds : Cardinality(CallsOf("ANALYZE", id)) = 1
    /\ \A id \in OutsideIds : \A k \in 1..Len(calls) : calls[k].id # id

\* a finished run of two candidates, one of them with a failed VACUUM, next
\* to a table the prefilter did not return
C19_Witness ==
    /\ pc = "done"
    /\ Len(candidates) = 2
    /\ OutsideIds # {}
    /\ \E id \in CandidateIds :
          /\ CallsEnded("VACUUM", id, "Error") # {}
          /\ Cardinality(CallsOf("VACUUM", id)) = 1
    /\ \A id \in CandidateIds : Cardinality(CallsOf("ANALYZE", id)) = 1

=============================================================================
